---- MODULE Spec2Model ----
(***************************************************************************)
(* Model of the ic-llm Qwen3 canister: the chunk assembler and stable      *)
(* storage of storage.rs, and the model session / generation loop of       *)
(* candle.rs.  Endpoints are update/query calls of a single-threaded       *)
(* canister: each call runs to completion before the next one starts.      *)
(***************************************************************************)
EXTENDS Integers, Sequences, FiniteSets, TLC

\* ------------------------------------------------------------------ bounds

\* largest chunk id a client sends (ids are u32 in the code)
MaxChunkId == 1
\* cap on the bytes held in BUFFER and on the bytes held in BUFFER_MAP
MaxBytes == 2

\* longest encoded prompt, in tokens
MaxPrompt == 2
\* cap on the attention cache's logical length: a generate call starts only if
\* its priming and all its decode steps fit below it
MaxCache == 56

\* byte values the clients upload (u8 in the code): 'H' and 'W'
Byte == {72, 87}
\* keys the clients save under
Keys == {"model_weights"}

ChunkIds == 0..MaxChunkId

\* the token ids the sampler returns (u32 in the code)
TokenIds == {0, 1}
\* the end markers probed in the vocabulary
Markers == {"<|endoftext|>", "<|im_end|>"}
\* the vocabularies a tokenizer blob decodes to, restricted to the markers
Vocabs == UNION {[M -> TokenIds] : M \in SUBSET Markers}
\* the encoded prompts: 1..MaxPrompt token ids
Prompts == {[i \in 1..n |-> 0] : n \in 1..MaxPrompt}

\* payloads of one upload call: the empty chunk and the one-byte chunks
Chunks == {<<>>} \cup {<<b>> : b \in Byte}

\* ------------------------------------------------------------------ state

VARIABLES
    BUFFER,       \* storage.rs BUFFER: Vec<u8>
    BUFFER_MAP,   \* storage.rs BUFFER_MAP: HashMap<u32, Vec<u8>>
    REGISTRIES,   \* lib.rs REGISTRIES: StableBTreeMap<String, Vec<u8>>
    QWEN_MODEL,   \* candle.rs QWEN_MODEL: Option<QwenModel>, <<>> for None, <<m>> for Some(m)
    call,         \* the generate call in progress: its position and its locals
    kv_resets,    \* whether the forward capability drops its cache when called at offset 0
    last,         \* the last call: endpoint, arguments, returned value
    pre           \* BUFFER, BUFFER_MAP, REGISTRIES as they were before the last call

vars == <<BUFFER, BUFFER_MAP, REGISTRIES, QWEN_MODEL, call, kv_resets, last, pre>>

\* the empty HashMap / empty StableBTreeMap
EmptyMap == <<>>

\* ------------------------------------------------------------------ values

\* Result::Ok / plain return values; n is a count, bytes a Vec<u8>, b a bool
Ok(n) == [tag |-> "Ok", n |-> n, bytes |-> <<>>, b |-> FALSE, err |-> <<"", "">>]
OkBytes(d) == [tag |-> "Ok", n |-> 0, bytes |-> d, b |-> FALSE, err |-> <<"", "">>]
OkBool(v) == [tag |-> "Ok", n |-> 0, bytes |-> <<>>, b |-> v, err |-> <<"", "">>]
\* Result::Err(format!(msg, key))
Err(msg, key) == [tag |-> "Err", n |-> 0, bytes |-> <<>>, b |-> FALSE, err |-> <<msg, key>>]

\* a call that has not returned yet
Pending == [tag |-> "Pending", n |-> 0, bytes |-> <<>>, b |-> FALSE, err |-> <<"", "">>]

\* the arguments of the latest model.forward of a call; none yet
NotFed == [input |-> <<>>, offset |-> 0]

\* no call is running; of a running call: where it is (pc) and its locals, a
\* counter (i), the bytes or text gathered (text), whether the instruction
\* counter has passed the limit since the call began (over), and the
\* arguments its latest step gave to model.forward (fed)
Idle == [pc |-> "idle", i |-> 0, text |-> <<>>, over |-> FALSE, fed |-> NotFed]

NoArg == [key |-> "", id |-> 0, chunk |-> <<>>]
KeyArg(k) == [key |-> k, id |-> 0, chunk |-> <<>>]
IdArg(i) == [key |-> "", id |-> i, chunk |-> <<>>]
ChunkArg(i, c) == [key |-> "", id |-> i, chunk |-> c]

\* what an endpoint leaves behind: the three stores and the returned value
Out(buf, map, reg, ret) == [BUFFER |-> buf, BUFFER_MAP |-> map, REGISTRIES |-> reg, ret |-> ret]

\* HashMap::insert / StableBTreeMap::insert: upsert of one entry
insert(m, k, v) == [x \in (DOMAIN m) \cup {k} |-> IF x = k THEN v ELSE m[x]]
\* HashMap::remove: the map without the entry
remove(m, k) == [x \in (DOMAIN m) \ {k} |-> m[x]]

\* ------------------------------------------------------------------ storage.rs

\* faulty variant: the new bytes are put in front of the buffer
append_chunk_prepends(buf, chunk) == chunk \o buf

append_chunk(buf, chunk) == buf \o chunk

buffer_size(buf) == Len(buf)

clear_buffer(buf) == <<>>

\* faulty variant: `entry(chunk_id).or_insert(chunk)`, a re-sent id keeps its first content
append_parallel_chunk_keeps_first(map, chunk_id, chunk) ==
    IF chunk_id \in DOMAIN map THEN map ELSE insert(map, chunk_id, chunk)

append_parallel_chunk(map, chunk_id, chunk) == insert(map, chunk_id, chunk)

parallel_chunk_count(map) == Cardinality(DOMAIN map)

\* Vec::sort of the collected keys: ascending
RECURSIVE sort(_)
sort(S) ==
    IF S = {} THEN <<>>
    ELSE LET m == CHOOSE x \in S : \A y \in S : x <= y
         IN  <<m>> \o sort(S \ {m})

parallel_chunk_ids(map) == sort(DOMAIN map)

RECURSIVE SumLen(_, _)
SumLen(map, ids) ==
    IF ids = {} THEN 0
    ELSE LET i == CHOOSE x \in ids : TRUE
         IN  Len(map[i]) + SumLen(map, ids \ {i})

parallel_buffer_size(map) == SumLen(map, DOMAIN map)

\* faulty variant: only the entry count is compared, the ids are not looked up
parallel_chunks_complete_count_only(map, expected_count) ==
    Cardinality(DOMAIN map) = expected_count

parallel_chunks_complete(map, expected_count) ==
    IF Cardinality(DOMAIN map) # expected_count THEN FALSE
    ELSE \A i \in 0..(expected_count - 1) : i \in DOMAIN map

\* the loop `for chunk_id in sorted_ids { if let Some(chunk) = map.remove(..) {..} }`:
\* acc carries the map, the consolidated data and the running total
RECURSIVE drain(_, _)
drain(sorted_ids, acc) ==
    IF sorted_ids = <<>> THEN acc
    ELSE LET chunk_id == Head(sorted_ids)
         IN  IF chunk_id \in DOMAIN acc.map
             THEN drain(Tail(sorted_ids),
                        [map |-> remove(acc.map, chunk_id),
                         data |-> acc.data \o acc.map[chunk_id],
                         total |-> acc.total + Len(acc.map[chunk_id])])
             ELSE drain(Tail(sorted_ids), acc)

\* the closure run on BUFFER_MAP by consolidate_parallel_chunks and
\* save_parallel_to_stable: the map it leaves, the data and the total size
take_sorted(map) ==
    IF DOMAIN map = {} THEN [map |-> map, data |-> <<>>, total |-> 0]
    ELSE LET d == drain(sort(DOMAIN map), [map |-> map, data |-> <<>>, total |-> 0])
         IN  [map |-> EmptyMap, data |-> d.data, total |-> d.total]

\* faulty variant: `buffer.clear()` runs before the emptiness check
consolidate_clears_buffer_first(buf, chunk_data, total_size) ==
    IF chunk_data = <<>>
    THEN [BUFFER |-> <<>>, ret |-> Err("No parallel chunks to consolidate", "")]
    ELSE [BUFFER |-> chunk_data, ret |-> Ok(total_size)]

\* faulty variant: `buffer.clear()` is missing, the chunks extend the buffer
consolidate_extends_buffer(buf, chunk_data, total_size) ==
    IF chunk_data = <<>>
    THEN [BUFFER |-> buf, ret |-> Err("No parallel chunks to consolidate", "")]
    ELSE [BUFFER |-> buf \o chunk_data, ret |-> Ok(total_size)]

\* the second half of consolidate_parallel_chunks, after the closure on
\* BUFFER_MAP has returned (chunk_data, total_size): the emptiness check and
\* the move into BUFFER
consolidate_move(buf, chunk_data, total_size) ==
    IF chunk_data = <<>>
    THEN [BUFFER |-> buf, ret |-> Err("No parallel chunks to consolidate", "")]
    ELSE [BUFFER |-> chunk_data, ret |-> Ok(total_size)]

\* the whole of consolidate_parallel_chunks, run without interruption
consolidate_parallel_chunks(buf, map, reg) ==
    LET t == take_sorted(map)
        m == consolidate_move(buf, t.data, t.total)
    IN  Out(m.BUFFER, t.map, reg, m.ret)

clear_parallel_chunks(map) == EmptyMap

\* faulty variant: removing one chunk drops every chunk held
remove_parallel_chunk_drops_all(buf, map, reg, chunk_id) ==
    Out(buf, EmptyMap, reg, OkBool(chunk_id \in DOMAIN map))

remove_parallel_chunk(buf, map, reg, chunk_id) ==
    Out(buf, remove(map, chunk_id), reg, OkBool(chunk_id \in DOMAIN map))

\* faulty variant: the drained buffer is inserted instead of the data taken from it
save_to_stable_inserts_drained(buf, map, reg, key) ==
    LET data == buf
    IN  IF data = <<>>
        THEN Out(<<>>, map, reg, Err("No data in buffer for key: ", key))
        ELSE Out(<<>>, map, insert(reg, key, <<>>), Ok(0))

\* faulty variant: the buffer is cloned, not taken
save_to_stable_copies(buf, map, reg, key) ==
    LET data == buf
    IN  IF data = <<>>
        THEN Out(buf, map, reg, Err("No data in buffer for key: ", key))
        ELSE Out(buf, map, insert(reg, key, data), Ok(0))

save_to_stable(buf, map, reg, key) ==
    LET data == buf
    IN  IF data = <<>>
        THEN Out(<<>>, map, reg, Err("No data in buffer for key: ", key))
        ELSE Out(<<>>, map, insert(reg, key, data), Ok(0))

\* faulty variant: the chunks pass through BUFFER on their way to the store,
\* as a consolidation followed by a save would move them
save_parallel_through_buffer(buf, map, reg, key) ==
    LET t == take_sorted(map)
    IN  IF t.data = <<>>
        THEN Out(buf, t.map, reg, Err("No parallel chunks to save for key: ", key))
        ELSE Out(<<>>, t.map, insert(reg, key, t.data), Ok(Len(t.data)))

save_parallel_to_stable(buf, map, reg, key) ==
    LET t == take_sorted(map)
    IN  IF t.data = <<>>
        THEN Out(buf, t.map, reg, Err("No parallel chunks to save for key: ", key))
        ELSE Out(buf, t.map, insert(reg, key, t.data), Ok(Len(t.data)))

\* faulty variant: the entry is moved out of the store (`remove`) instead of
\* cloned
load_from_stable_moves(buf, map, reg, key) ==
    IF key \in DOMAIN reg
    THEN Out(reg[key], map, remove(reg, key), Ok(0))
    ELSE Out(buf, map, reg, Err("No data found in stable storage for key: ", key))

load_from_stable(buf, map, reg, key) ==
    IF key \in DOMAIN reg
    THEN Out(reg[key], map, reg, Ok(0))
    ELSE Out(buf, map, reg, Err("No data found in stable storage for key: ", key))

get_data(buf, map, reg) == Out(<<>>, map, reg, OkBytes(buf))

get_stable_data(buf, map, reg, key) ==
    IF key \in DOMAIN reg
    THEN Out(buf, map, reg, OkBytes(reg[key]))
    ELSE Out(buf, map, reg, Err("No data found in stable storage for key: ", key))

\* ------------------------------------------------------------------ lib.rs

load_bytes_from_stable(reg, key) == IF key \in DOMAIN reg THEN <<reg[key]>> ELSE <<>>

\* ------------------------------------------------------------------ candle.rs

\* `let max_tokens = 50`
max_tokens == 50

\* the fields of QwenModel the generation state lives in; kv_cache is the
\* logical length of the attention cache owned by `model: QuantizedQwen3`
QwenModel(eos_token) == [tokens |-> <<>>, eos_token |-> eos_token, kv_cache |-> 0]

\* faulty variant: the secondary marker is probed first
eos_token_of_secondary_first(vocab) ==
    IF "<|im_end|>" \in DOMAIN vocab THEN vocab["<|im_end|>"]
    ELSE IF "<|endoftext|>" \in DOMAIN vocab THEN vocab["<|endoftext|>"]
    ELSE 0

\* the eos lookup of internal_setup_model
eos_token_of(vocab) ==
    IF "<|endoftext|>" \in DOMAIN vocab THEN vocab["<|endoftext|>"]
    ELSE IF "<|im_end|>" \in DOMAIN vocab THEN vocab["<|im_end|>"]
    ELSE 0

\* the result of one endpoint of the session: the session it leaves and what it returns
SessionOut(model, ret) == [QWEN_MODEL |-> model, ret |-> ret]

\* lib: what Tokenizer::from_bytes, gguf_file::Content::read and
\* QuantizedQwen3::from_gguf answer for the stored blobs
LoadOutcomes ==
    [tokenizer_ok : BOOLEAN, vocab : Vocabs, gguf_ok : BOOLEAN, model_ok : BOOLEAN]

\* faulty variant: a successful load keeps the generation state of the
\* session it finds installed and only renews its eos token
\* faulty variant: the old session is dropped as soon as both blobs are
\* found, before they are decoded
internal_setup_model_unloads_first(cur, reg, lib) ==
    IF load_bytes_from_stable(reg, "model_weights") = <<>>
    THEN SessionOut(cur, Err("Tokenizer not found in stable storage", ""))
    ELSE IF load_bytes_from_stable(reg, "tokenizer") = <<>>
    THEN SessionOut(cur, Err("Tokenizer not found in stable storage", ""))
    ELSE IF ~lib.tokenizer_ok
    THEN SessionOut(<<>>, Err("Failed to load tokenizer: ", ""))
    ELSE IF ~lib.gguf_ok
    THEN SessionOut(<<>>, Err("Failed to read GGUF: ", ""))
    ELSE IF ~lib.model_ok
    THEN SessionOut(<<>>, Err("from_gguf", ""))
    ELSE SessionOut(<<QwenModel(eos_token_of(lib.vocab))>>, Ok(0))

internal_setup_model_keeps_state(cur, reg, lib) ==
    IF load_bytes_from_stable(reg, "model_weights") = <<>>
    THEN SessionOut(cur, Err("Tokenizer not found in stable storage", ""))
    ELSE IF load_bytes_from_stable(reg, "tokenizer") = <<>>
    THEN SessionOut(cur, Err("Tokenizer not found in stable storage", ""))
    ELSE IF ~lib.tokenizer_ok
    THEN SessionOut(cur, Err("Failed to load tokenizer: ", ""))
    ELSE IF ~lib.gguf_ok
    THEN SessionOut(cur, Err("Failed to read GGUF: ", ""))
    ELSE IF ~lib.model_ok
    THEN SessionOut(cur, Err("from_gguf", ""))
    ELSE IF cur # <<>>
    THEN SessionOut(<<[cur[1] EXCEPT !.eos_token = eos_token_of(lib.vocab)]>>, Ok(0))
    ELSE SessionOut(<<QwenModel(eos_token_of(lib.vocab))>>, Ok(0))

internal_setup_model(cur, reg, lib) ==
    IF load_bytes_from_stable(reg, "model_weights") = <<>>
    THEN SessionOut(cur, Err("Tokenizer not found in stable storage", ""))
    ELSE IF load_bytes_from_stable(reg, "tokenizer") = <<>>
    THEN SessionOut(cur, Err("Tokenizer not found in stable storage", ""))
    ELSE IF ~lib.tokenizer_ok
    THEN SessionOut(cur, Err("Failed to load tokenizer: ", ""))
    ELSE IF ~lib.gguf_ok
    THEN SessionOut(cur, Err("Failed to read GGUF: ", ""))
    ELSE IF ~lib.model_ok
    THEN SessionOut(cur, Err("from_gguf", ""))
    ELSE SessionOut(<<QwenModel(eos_token_of(lib.vocab))>>, Ok(0))

\* the attention cache after model.forward(input, offset) over n positions:
\* whether the capability drops the cache at offset 0 is the library's choice
forward(kv_cache, n, offset, resets) ==
    IF offset = 0 /\ resets THEN n ELSE kv_cache + n

\* lib: what forward, sample and decode answer in one step; the text that
\* tokenizer.decode returns for one token is written as one symbol, the token
StepOutcomes == [forward_ok : BOOLEAN, next_token : TokenIds, decode_ok : BOOLEAN]

process_tokens(model, tokens, lib, resets) ==
    LET offset == Len(model.tokens)
    IN  IF ~lib.forward_ok
        THEN [model |-> model, ret |-> Err("Forward pass error: ", ""),
              fed |-> [input |-> tokens, offset |-> offset]]
        ELSE LET fed == [model EXCEPT !.kv_cache = forward(@, Len(tokens), offset, resets)]
                 pushed == [fed EXCEPT !.tokens = Append(@, lib.next_token)]
             IN  IF ~lib.decode_ok
                 THEN [model |-> pushed, ret |-> Err("Decode error: ", ""),
                       fed |-> [input |-> tokens, offset |-> offset]]
                 ELSE [model |-> pushed, ret |-> OkBytes(<<lib.next_token>>),
                       fed |-> [input |-> tokens, offset |-> offset]]

\* InferenceResponse of a successful call
Response(generated_text, tokens_generated) ==
    [tag |-> "Ok", n |-> tokens_generated, bytes |-> generated_text, b |-> TRUE,
     err |-> <<"", "">>]

\* faulty variant: resetting an unloaded session is reported as done
reset_generation_quiet(cur) == SessionOut(IF cur # <<>> THEN <<[cur[1] EXCEPT !.tokens = <<>>]>> ELSE cur, Ok(0))

reset_generation(cur) ==
    IF cur # <<>>
    THEN SessionOut(<<[cur[1] EXCEPT !.tokens = <<>>]>>, Ok(0))
    ELSE SessionOut(cur, Err("Model not initialized", ""))

is_model_loaded(cur) == cur # <<>>

get_model_info(cur) ==
    IF cur # <<>>
    THEN [loaded |-> TRUE, current_tokens |-> Len(cur[1].tokens)]
    ELSE [loaded |-> FALSE, current_tokens |-> 0]

\* ------------------------------------------------------------------ calls

\* faulty variant: the endpoints are async and a call may start while another
\* one is suspended
NoCallRunning_async == TRUE

\* the endpoints are synchronous `pub fn`s of a single-threaded canister: a
\* call starts only when no other call is running
NoCallRunning == call.pc = "idle"

\* one endpoint call: the stores take the values the endpoint leaves, and the
\* call and the stores before it are recorded
Call(op, arg, out) ==
    /\ BUFFER' = out.BUFFER
    /\ BUFFER_MAP' = out.BUFFER_MAP
    /\ REGISTRIES' = out.REGISTRIES
    /\ last' = [op |-> op, arg |-> arg, ret |-> out.ret]
    /\ pre' = [BUFFER |-> BUFFER, BUFFER_MAP |-> BUFFER_MAP, REGISTRIES |-> REGISTRIES]
    /\ NoCallRunning
    /\ UNCHANGED <<QWEN_MODEL, call, kv_resets>>

AppendChunk ==
    \E chunk \in Chunks :
        /\ Len(BUFFER) + Len(chunk) <= MaxBytes
        /\ Call("append_chunk", ChunkArg(0, chunk),
                Out(append_chunk(BUFFER, chunk), BUFFER_MAP, REGISTRIES, Ok(0)))

ClearBuffer ==
    Call("clear_buffer", NoArg, Out(clear_buffer(BUFFER), BUFFER_MAP, REGISTRIES, Ok(0)))

AppendParallelChunk ==
    \E chunk_id \in ChunkIds, chunk \in Chunks :
        /\ parallel_buffer_size(remove(BUFFER_MAP, chunk_id)) + Len(chunk) <= MaxBytes
        /\ Call("append_parallel_chunk", ChunkArg(chunk_id, chunk),
                Out(BUFFER, append_parallel_chunk(BUFFER_MAP, chunk_id, chunk), REGISTRIES, Ok(0)))

ParallelChunksComplete ==
    \E expected_count \in 0..(MaxChunkId + 1) :
        Call("parallel_chunks_complete", IdArg(expected_count),
             Out(BUFFER, BUFFER_MAP, REGISTRIES,
                 OkBool(parallel_chunks_complete(BUFFER_MAP, expected_count))))

\* consolidate_parallel_chunks, first half: the closure on BUFFER_MAP drains
\* the map and returns (chunk_data, total_size), kept in the call's locals
ConsolidateTake ==
    /\ NoCallRunning
    /\ LET t == take_sorted(BUFFER_MAP)
       IN  /\ BUFFER_MAP' = t.map
           /\ call' = [pc |-> "consolidate", i |-> t.total, text |-> t.data, over |-> FALSE,
                       fed |-> NotFed]
    /\ last' = [op |-> "consolidate_parallel_chunks", arg |-> NoArg, ret |-> Pending]
    /\ pre' = [BUFFER |-> BUFFER, BUFFER_MAP |-> BUFFER_MAP, REGISTRIES |-> REGISTRIES]
    /\ UNCHANGED <<BUFFER, REGISTRIES, QWEN_MODEL, kv_resets>>

\* consolidate_parallel_chunks, second half: the emptiness check, the move
\* into BUFFER and the return
ConsolidateMove ==
    /\ call.pc = "consolidate"
    /\ LET m == consolidate_move(BUFFER, call.text, call.i)
       IN  /\ BUFFER' = m.BUFFER
           /\ last' = [op |-> "consolidate_parallel_chunks", arg |-> NoArg, ret |-> m.ret]
    /\ call' = Idle
    /\ UNCHANGED <<BUFFER_MAP, REGISTRIES, QWEN_MODEL, kv_resets, pre>>

ClearParallelChunks ==
    Call("clear_parallel_chunks", NoArg,
         Out(BUFFER, clear_parallel_chunks(BUFFER_MAP), REGISTRIES, Ok(0)))

RemoveParallelChunk ==
    \E chunk_id \in ChunkIds :
        Call("remove_parallel_chunk", IdArg(chunk_id),
             remove_parallel_chunk(BUFFER, BUFFER_MAP, REGISTRIES, chunk_id))

SaveToStable ==
    \E key \in Keys :
        Call("save_to_stable", KeyArg(key), save_to_stable(BUFFER, BUFFER_MAP, REGISTRIES, key))

SaveParallelToStable ==
    \E key \in Keys :
        Call("save_parallel_to_stable", KeyArg(key),
             save_parallel_to_stable(BUFFER, BUFFER_MAP, REGISTRIES, key))

LoadFromStable ==
    \E key \in Keys :
        Call("load_from_stable", KeyArg(key), load_from_stable(BUFFER, BUFFER_MAP, REGISTRIES, key))

GetData ==
    Call("get_data", NoArg, get_data(BUFFER, BUFFER_MAP, REGISTRIES))

GetStableData ==
    \E key \in Keys :
        Call("get_stable_data", KeyArg(key), get_stable_data(BUFFER, BUFFER_MAP, REGISTRIES, key))
\* faulty variant: the new instance starts on a fresh map (StableBTreeMap::new)
\* instead of the one kept in stable memory
upgrade_new_store(buf, map, reg) == Out(<<>>, EmptyMap, EmptyMap, Ok(0))

\* the stores of the instance that runs after an upgrade: the thread_locals
\* BUFFER and BUFFER_MAP are initialised anew, REGISTRIES is
\* StableBTreeMap::init over stable memory, which holds the map it held
\* before; pre_upgrade and post_upgrade only print
upgrade(buf, map, reg) == Out(<<>>, EmptyMap, reg, Ok(0))

\* an upgrade of the canister between two calls; the thread_local QWEN_MODEL
\* of the new instance is None. The hooks return nothing: the field b of the
\* record kept in `last` remembers whether the old instance held a session
Upgrade ==
    /\ NoCallRunning
    /\ LET out == upgrade(BUFFER, BUFFER_MAP, REGISTRIES)
       IN  /\ BUFFER' = out.BUFFER
           /\ BUFFER_MAP' = out.BUFFER_MAP
           /\ REGISTRIES' = out.REGISTRIES
           /\ last' = [op |-> "post_upgrade", arg |-> NoArg,
                       ret |-> [out.ret EXCEPT !.b = is_model_loaded(QWEN_MODEL)]]
    /\ pre' = [BUFFER |-> BUFFER, BUFFER_MAP |-> BUFFER_MAP, REGISTRIES |-> REGISTRIES]
    /\ QWEN_MODEL' = <<>>
    /\ UNCHANGED <<call, kv_resets>>

Init ==
    /\ BUFFER = <<>>
    /\ BUFFER_MAP = EmptyMap
    /\ REGISTRIES = EmptyMap
    /\ last = [op |-> "init", arg |-> NoArg, ret |-> Ok(0)]
    /\ pre = [BUFFER |-> <<>>, BUFFER_MAP |-> EmptyMap, REGISTRIES |-> EmptyMap]
    /\ QWEN_MODEL = <<>>
    /\ call = Idle
    /\ kv_resets = FALSE

Next ==
    \/ AppendChunk
    \/ ClearBuffer
    \/ AppendParallelChunk
    \/ ParallelChunksComplete
    \/ ConsolidateTake
    \/ ConsolidateMove
    \/ ClearParallelChunks
    \/ RemoveParallelChunk
    \/ SaveToStable
    \/ SaveParallelToStable
    \/ LoadFromStable
    \/ GetData
    \/ GetStableData
    \/ Upgrade

Spec == Init /\ [][Next]_vars

\* the storage endpoints, started after a client has uploaded a tokenizer and
\* saved it under its reserved key: the store holds a key that no later call
\* names
InitStore ==
    /\ BUFFER = <<>>
    /\ BUFFER_MAP = EmptyMap
    /\ REGISTRIES = [k \in {"tokenizer"} |-> <<87>>]
    /\ last = [op |-> "save_to_stable", arg |-> KeyArg("tokenizer"), ret |-> Ok(0)]
    /\ pre = [BUFFER |-> <<87>>, BUFFER_MAP |-> EmptyMap, REGISTRIES |-> EmptyMap]
    /\ QWEN_MODEL = <<>>
    /\ call = Idle
    /\ kv_resets = FALSE

SpecStore == InitStore /\ [][Next]_vars

\* ------------------------------------------------------------------ session calls

Snapshot == [BUFFER |-> BUFFER, BUFFER_MAP |-> BUFFER_MAP, REGISTRIES |-> REGISTRIES]

\* a session endpoint that returns in one step
SessionCall(op, out) ==
    /\ NoCallRunning
    /\ QWEN_MODEL' = out.QWEN_MODEL
    /\ last' = [op |-> op, arg |-> NoArg, ret |-> out.ret]
    /\ pre' = Snapshot
    /\ UNCHANGED <<BUFFER, BUFFER_MAP, REGISTRIES, call, kv_resets>>

\* what a successful setup_model was given: the vocabulary of the tokenizer
\* stored under the key `tokenizer`
LoadArg(vocab) == [key |-> "tokenizer", id |-> 0, chunk |-> <<>>, vocab |-> vocab]

\* setup_model returns Ok or Err(message); the fields b and n of the record
\* kept in `last` remember whether a session was installed when the call
\* began and how many tokens its history held
SetupModel ==
    \E lib \in LoadOutcomes :
        LET out == internal_setup_model(QWEN_MODEL, REGISTRIES, lib)
            held == get_model_info(QWEN_MODEL)
        IN  /\ NoCallRunning
            /\ QWEN_MODEL' = out.QWEN_MODEL
            /\ last' = [op |-> "setup_model",
                        arg |-> IF out.ret.tag = "Ok" THEN LoadArg(lib.vocab) ELSE NoArg,
                        ret |-> [out.ret EXCEPT !.b = held.loaded, !.n = held.current_tokens]]
            /\ pre' = Snapshot
            /\ UNCHANGED <<BUFFER, BUFFER_MAP, REGISTRIES, call, kv_resets>>

ResetGeneration ==
    SessionCall("reset_generation", reset_generation(QWEN_MODEL))

IsModelLoaded ==
    SessionCall("is_model_loaded", SessionOut(QWEN_MODEL, OkBool(is_model_loaded(QWEN_MODEL))))

\* the ModelInfo record is returned in the fields b (loaded) and n
\* (current_tokens)
GetModelInfo ==
    LET info == get_model_info(QWEN_MODEL)
    IN  SessionCall("get_model_info",
                    SessionOut(QWEN_MODEL, [OkBool(info.loaded) EXCEPT !.n = info.current_tokens]))

\* generate on an unloaded session: the closure fails at `ok_or_else`
GenerateNotInitialized ==
    /\ QWEN_MODEL = <<>>
    /\ SessionCall("generate",
                   SessionOut(QWEN_MODEL, Err("Model not initialized. Call setup_model first.", "")))

\* generate, up to the loop: state reset, tokenization, the priming step
GeneratePrime ==
    /\ NoCallRunning
    /\ QWEN_MODEL # <<>>
    /\ \E encode_ok \in BOOLEAN, tokens \in Prompts, lib \in StepOutcomes, over \in BOOLEAN :
        LET cleared == [QWEN_MODEL[1] EXCEPT !.tokens = <<>>]
            first == process_tokens(cleared, tokens, lib, kv_resets)
        IN  /\ forward(cleared.kv_cache, Len(tokens), 0, kv_resets) + max_tokens <= MaxCache
            /\ pre' = Snapshot
            /\ UNCHANGED <<BUFFER, BUFFER_MAP, REGISTRIES, kv_resets>>
            /\ IF ~encode_ok
               THEN /\ QWEN_MODEL' = <<cleared>>
                    /\ call' = Idle
                    /\ last' = [op |-> "generate", arg |-> NoArg,
                                ret |-> Err("Tokenization error: ", "")]
               ELSE /\ QWEN_MODEL' = <<first.model>>
                    /\ IF first.ret.tag = "Err"
                       THEN /\ call' = Idle
                            /\ last' = [op |-> "generate", arg |-> NoArg, ret |-> first.ret]
                       ELSE /\ call' = [pc |-> "loop", i |-> 0, text |-> first.ret.bytes,
                                         over |-> over, fed |-> first.fed]
                            /\ last' = [op |-> "generate", arg |-> NoArg, ret |-> Pending]

\* faulty variant: the loop has no upper bound (`loop` instead of
\* `for _ in 0..max_tokens`)
LoopExit_unbounded(over_limit) ==
    \/ QWEN_MODEL[1].tokens # <<>>
         /\ QWEN_MODEL[1].tokens[Len(QWEN_MODEL[1].tokens)] = QWEN_MODEL[1].eos_token
    \/ over_limit

\* faulty variant: the instruction counter is not looked at
LoopExit_ignores_limit(over_limit) ==
    \/ call.i = max_tokens
    \/ QWEN_MODEL[1].tokens # <<>>
         /\ QWEN_MODEL[1].tokens[Len(QWEN_MODEL[1].tokens)] = QWEN_MODEL[1].eos_token

\* the head of one loop iteration decides to leave the loop: the range is
\* used up, the last token is eos, or the instruction counter is over the limit
LoopExit(over_limit) ==
    \/ call.i = max_tokens
    \/ QWEN_MODEL[1].tokens # <<>>
         /\ QWEN_MODEL[1].tokens[Len(QWEN_MODEL[1].tokens)] = QWEN_MODEL[1].eos_token
    \/ over_limit

\* generate leaves the loop and returns its response
GenerateReturn ==
    /\ call.pc = "loop"
    /\ LoopExit(call.over)
    /\ call' = Idle
    /\ last' = [last EXCEPT !.ret = Response(call.text, Len(QWEN_MODEL[1].tokens))]
    /\ UNCHANGED <<BUFFER, BUFFER_MAP, REGISTRIES, QWEN_MODEL, kv_resets, pre>>

\* one iteration of the loop of generate: a decode step over the last token
DecodeStep ==
    /\ call.pc = "loop"
    /\ ~LoopExit(call.over)
    /\ \E lib \in StepOutcomes, over \in BOOLEAN :
        LET model == QWEN_MODEL[1]
            last_token == model.tokens[Len(model.tokens)]
            step == process_tokens(model, <<last_token>>, lib, kv_resets)
        IN  /\ QWEN_MODEL' = <<step.model>>
            /\ IF step.ret.tag = "Err"
               THEN /\ call' = Idle
                    /\ last' = [last EXCEPT !.ret = step.ret]
               ELSE /\ call' = [call EXCEPT !.i = @ + 1, !.text = @ \o step.ret.bytes,
                                             !.over = over, !.fed = step.fed]
                    /\ UNCHANGED last
            /\ UNCHANGED <<BUFFER, BUFFER_MAP, REGISTRIES, kv_resets, pre>>

\* the stores a client has reached by uploading under the reserved keys
SessionStores ==
    UNION {[K -> {<<72>>}] : K \in SUBSET {"model_weights", "tokenizer"}}

InitSession ==
    /\ BUFFER = <<>>
    /\ BUFFER_MAP = EmptyMap
    /\ REGISTRIES \in SessionStores
    /\ QWEN_MODEL = <<>>
    /\ call = Idle
    /\ kv_resets \in BOOLEAN
    /\ last = [op |-> "init", arg |-> NoArg, ret |-> Ok(0)]
    /\ pre = [BUFFER |-> <<>>, BUFFER_MAP |-> EmptyMap, REGISTRIES |-> REGISTRIES]

NextSession ==
    \/ SetupModel
    \/ ResetGeneration
    \/ IsModelLoaded
    \/ GetModelInfo
    \/ GenerateNotInitialized
    \/ GeneratePrime
    \/ DecodeStep
    \/ GenerateReturn
    \/ Upgrade

SpecSession == InitSession /\ [][NextSession]_vars

\* the life of one canister over its upgrades, after data was committed to
\* the store: uploads into the transient stores, model setup, and upgrades
NextLifecycle ==
    \/ AppendChunk
    \/ AppendParallelChunk
    \/ SetupModel
    \/ Upgrade

SpecLifecycle == InitSession /\ [][NextLifecycle]_vars

\* ------------------------------------------------------------------ properties

\* the last call has returned
Returned == last.ret # Pending

\* the errors of the interface, by the message the code returns
EmptyUpload(ret) ==
    /\ ret.tag = "Err"
    /\ ret.err[1] \in {"No parallel chunks to consolidate", "No parallel chunks to save for key: "}
EmptyBuffer(ret) == ret.tag = "Err" /\ ret.err[1] = "No data in buffer for key: "

\* the chunks with an id below n, concatenated in ascending id order
RECURSIVE ConcatBelow(_, _)
ConcatBelow(map, n) ==
    IF n = 0 THEN <<>>
    ELSE ConcatBelow(map, n - 1) \o (IF (n - 1) \in DOMAIN map THEN map[n - 1] ELSE <<>>)

AscendingConcat(map) == ConcatBelow(map, MaxChunkId + 1)

\* the UploadBuffer built from empty by appendChunk of chunks 0..n-1 in id order
RECURSIVE SequentialUpload(_, _)
SequentialUpload(map, n) ==
    IF n = 0 THEN <<>> ELSE append_chunk(SequentialUpload(map, n - 1), map[n - 1])

RECURSIVE SumBelow(_, _)
SumBelow(map, n) ==
    IF n = 0 THEN 0
    ELSE SumBelow(map, n - 1) + (IF (n - 1) \in DOMAIN map THEN Len(map[n - 1]) ELSE 0)

\* the sum of the chunk lengths
TotalBytes(map) == SumBelow(map, MaxChunkId + 1)

StoresUnchanged ==
    /\ BUFFER = pre.BUFFER
    /\ BUFFER_MAP = pre.BUFFER_MAP
    /\ REGISTRIES = pre.REGISTRIES

\* C1: whenever consolidateParallelChunks runs on a ChunkMap whose ids are
\* exactly 0..N-1 (N >= 1), whatever order they were appended in, it leaves the
\* UploadBuffer equal to the chunks concatenated in ascending id order, which is
\* the buffer appendChunk builds from the same chunks in id order.
C1_ConsolidateInIdOrder ==
    (/\ last.op = "consolidate_parallel_chunks"
     /\ Returned
     /\ \E n \in 1..(MaxChunkId + 1) : DOMAIN pre.BUFFER_MAP = 0..(n - 1))
    => /\ BUFFER = AscendingConcat(pre.BUFFER_MAP)
       /\ BUFFER = SequentialUpload(pre.BUFFER_MAP, Cardinality(DOMAIN pre.BUFFER_MAP))

\* C3: whenever consolidateParallelChunks, saveParallelToStable or saveToStable
\* returns an error, the UploadBuffer, the ChunkMap and the store are as they
\* were before the call.
C3_ErrorLeavesStoresUnchanged ==
    (/\ last.op \in {"consolidate_parallel_chunks", "save_parallel_to_stable", "save_to_stable"}
     /\ last.ret.tag = "Err")
    => StoresUnchanged

\* C4: consolidateParallelChunks on a ChunkMap with no entries returns the
\* EmptyUpload error and leaves the UploadBuffer as it was.
C4_ConsolidateEmptyMap ==
    (last.op = "consolidate_parallel_chunks" /\ Returned /\ pre.BUFFER_MAP = EmptyMap)
    => /\ EmptyUpload(last.ret)
       /\ BUFFER = pre.BUFFER

\* C4 witness: consolidation was called with no chunks while the UploadBuffer
\* held sequential content.
C4_Witness ==
    /\ last.op = "consolidate_parallel_chunks"
    /\ pre.BUFFER_MAP = EmptyMap
    /\ pre.BUFFER # <<>>
    /\ EmptyUpload(last.ret)

\* C5: consolidateParallelChunks and saveParallelToStable fail with EmptyUpload
\* only when the ChunkMap has no entries; with at least one entry, a single
\* zero-length chunk included, they succeed and return the total byte count.
C5_NonEmptyMapSucceeds ==
    (last.op \in {"consolidate_parallel_chunks", "save_parallel_to_stable"} /\ Returned)
    => IF pre.BUFFER_MAP = EmptyMap
       THEN EmptyUpload(last.ret)
       ELSE last.ret.tag = "Ok" /\ last.ret.n = TotalBytes(pre.BUFFER_MAP)

\* C6: parallelChunksComplete(N) returns true exactly when the key set of the
\* ChunkMap is {0,...,N-1}, and changes no state.
C6_CompleteIffDenseRange ==
    last.op = "parallel_chunks_complete"
    => /\ last.ret.b = (DOMAIN pre.BUFFER_MAP = 0..(last.arg.id - 1))
       /\ StoresUnchanged

\* C6 witness: the predicate was asked for N = 1 while the only chunk held had a
\* different id, so the count matched and the range did not.
C6_Witness ==
    /\ last.op = "parallel_chunks_complete"
    /\ last.arg.id = 1
    /\ DOMAIN pre.BUFFER_MAP = {1}
    /\ ~last.ret.b

\* the bytes B a save call was given: the buffer, or the chunks in id order
C7_SavedBytes ==
    IF last.op = "save_to_stable" THEN pre.BUFFER ELSE AscendingConcat(pre.BUFFER_MAP)

\* C7: after a successful saveToStable(key) of a non-empty buffer B, or a
\* successful saveParallelToStable(key) of chunks forming B, getStableData(key)
\* returns B, and loadFromStable(key) followed by getData() returns B.
C7_SaveLoadRoundTrip ==
    (/\ last.op \in {"save_to_stable", "save_parallel_to_stable"}
     /\ last.ret.tag = "Ok")
    => LET key == last.arg.key
           loaded == load_from_stable(BUFFER, BUFFER_MAP, REGISTRIES, key)
       IN  /\ C7_SavedBytes # <<>>
           /\ get_stable_data(BUFFER, BUFFER_MAP, REGISTRIES, key).ret = OkBytes(C7_SavedBytes)
           /\ loaded.ret.tag = "Ok"
           /\ get_data(loaded.BUFFER, loaded.BUFFER_MAP, loaded.REGISTRIES).ret
                  = OkBytes(C7_SavedBytes)

\* C7 witness: a two-byte buffer with two different bytes was saved.
C7_Witness ==
    /\ last.op = "save_to_stable"
    /\ last.ret.tag = "Ok"
    /\ Len(pre.BUFFER) = 2
    /\ pre.BUFFER[1] # pre.BUFFER[2]

\* C8: appendParallelChunk(id, bytes) leaves id holding bytes, changes no other
\* entry, does not grow the entry count when id was already present, and a
\* consolidation that follows uses the bytes written last.
C8_AppendParallelOverwrites ==
    last.op = "append_parallel_chunk"
    => LET id == last.arg.id
           then == consolidate_parallel_chunks(BUFFER, BUFFER_MAP, REGISTRIES)
       IN  /\ id \in DOMAIN BUFFER_MAP
           /\ BUFFER_MAP[id] = last.arg.chunk
           /\ DOMAIN BUFFER_MAP = DOMAIN pre.BUFFER_MAP \cup {id}
           /\ \A j \in DOMAIN pre.BUFFER_MAP \ {id} : BUFFER_MAP[j] = pre.BUFFER_MAP[j]
           /\ id \in DOMAIN pre.BUFFER_MAP
                => parallel_chunk_count(BUFFER_MAP) = parallel_chunk_count(pre.BUFFER_MAP)
           /\ then.ret.tag = "Ok"
                => then.BUFFER = AscendingConcat(
                       [j \in DOMAIN pre.BUFFER_MAP \cup {id} |->
                           IF j = id THEN last.arg.chunk ELSE pre.BUFFER_MAP[j]])

\* C8 witness: an id was sent again with different bytes while another chunk
\* was held.
C8_Witness ==
    /\ last.op = "append_parallel_chunk"
    /\ last.arg.id \in DOMAIN pre.BUFFER_MAP
    /\ pre.BUFFER_MAP[last.arg.id] # last.arg.chunk
    /\ last.arg.chunk # <<>>
    /\ Cardinality(DOMAIN BUFFER_MAP) >= 2

\* C9: a successful consolidateParallelChunks leaves the UploadBuffer equal to
\* the consolidated chunks alone (earlier sequential content is gone), leaves
\* the ChunkMap empty, and returns the sum of the chunk lengths, which is
\* bufferSize() afterwards.
C9_ConsolidateReplacesBuffer ==
    (last.op = "consolidate_parallel_chunks" /\ last.ret.tag = "Ok")
    => /\ BUFFER = AscendingConcat(pre.BUFFER_MAP)
       /\ BUFFER_MAP = EmptyMap
       /\ last.ret.n = TotalBytes(pre.BUFFER_MAP)
       /\ last.ret.n = buffer_size(BUFFER)

\* C9 witness: consolidation succeeded over a buffer that held other
\* sequential content.
C9_Witness ==
    /\ last.op = "consolidate_parallel_chunks"
    /\ last.ret.tag = "Ok"
    /\ pre.BUFFER # <<>>
    /\ pre.BUFFER # BUFFER
    /\ Cardinality(DOMAIN pre.BUFFER_MAP) >= 2

\* C10: saveToStable(key) with a non-empty UploadBuffer stores the buffer's
\* bytes under key, changes no other key, and leaves the UploadBuffer empty;
\* with an empty UploadBuffer it returns EmptyBuffer and the store is unchanged.
C10_SaveToStable ==
    last.op = "save_to_stable"
    => IF pre.BUFFER # <<>>
       THEN /\ last.ret.tag = "Ok"
            /\ DOMAIN REGISTRIES = DOMAIN pre.REGISTRIES \cup {last.arg.key}
            /\ REGISTRIES[last.arg.key] = pre.BUFFER
            /\ \A k \in DOMAIN pre.REGISTRIES \ {last.arg.key} : REGISTRIES[k] = pre.REGISTRIES[k]
            /\ BUFFER = <<>>
       ELSE /\ EmptyBuffer(last.ret)
            /\ REGISTRIES = pre.REGISTRIES

\* C10 witness: a save overwrote a different value held under the same key.
C10_Witness ==
    /\ last.op = "save_to_stable"
    /\ last.ret.tag = "Ok"
    /\ last.arg.key \in DOMAIN pre.REGISTRIES
    /\ pre.REGISTRIES[last.arg.key] # pre.BUFFER

\* C2: in every state of a loaded session, between the steps of its calls, the
\* attention cache's logical length equals the length of the token history.
C2_CacheLengthIsHistoryLength ==
    QWEN_MODEL # <<>> => QWEN_MODEL[1].kv_cache = Len(QWEN_MODEL[1].tokens)

\* C11: saveParallelToStable(key) leaves the store, the ChunkMap, the returned
\* byte count and the success or EmptyUpload outcome as
\* consolidateParallelChunks followed, when it succeeds, by saveToStable(key)
\* would leave them from the same state, and leaves the UploadBuffer as it was.
C11_SaveParallelIsConsolidateThenSave ==
    last.op = "save_parallel_to_stable"
    => LET c == consolidate_parallel_chunks(pre.BUFFER, pre.BUFFER_MAP, pre.REGISTRIES)
           s == save_to_stable(c.BUFFER, c.BUFFER_MAP, c.REGISTRIES, last.arg.key)
       IN  /\ BUFFER = pre.BUFFER
           /\ IF c.ret.tag = "Err"
              THEN /\ EmptyUpload(c.ret)
                   /\ EmptyUpload(last.ret)
                   /\ REGISTRIES = c.REGISTRIES
                   /\ BUFFER_MAP = c.BUFFER_MAP
              ELSE /\ s.ret.tag = "Ok"
                   /\ last.ret.tag = "Ok"
                   /\ last.ret.n = c.ret.n
                   /\ REGISTRIES = s.REGISTRIES
                   /\ BUFFER_MAP = s.BUFFER_MAP
                   /\ BUFFER_MAP = EmptyMap

\* C11 witness: two chunks were saved in one call while the UploadBuffer held
\* sequential content.
C11_Witness ==
    /\ last.op = "save_parallel_to_stable"
    /\ last.ret.tag = "Ok"
    /\ pre.BUFFER # <<>>
    /\ Cardinality(DOMAIN pre.BUFFER_MAP) >= 2
    /\ pre.BUFFER # AscendingConcat(pre.BUFFER_MAP)

\* C12: the store is last-write-wins and never loses a key. Every call leaves
\* each key that was stored before it stored; a key that the call did not save
\* successfully keeps its bytes, and getStableData returns them; after a
\* successful save, getStableData(key) returns the bytes that save was given;
\* and no call adds a key other than the one a successful save names. By
\* induction over the calls, getStableData(key) returns the bytes of the most
\* recent successful save to key.
C12_StoreLastWriteWins ==
    LET saved == /\ last.op \in {"save_to_stable", "save_parallel_to_stable"}
                 /\ last.ret.tag = "Ok"
        named == IF saved THEN {last.arg.key} ELSE {}
    IN  /\ DOMAIN pre.REGISTRIES \subseteq DOMAIN REGISTRIES
        /\ DOMAIN REGISTRIES \subseteq DOMAIN pre.REGISTRIES \cup named
        /\ \A k \in DOMAIN pre.REGISTRIES \ named :
               /\ REGISTRIES[k] = pre.REGISTRIES[k]
               /\ get_stable_data(BUFFER, BUFFER_MAP, REGISTRIES, k).ret
                      = OkBytes(pre.REGISTRIES[k])
        /\ \A k \in named :
               get_stable_data(BUFFER, BUFFER_MAP, REGISTRIES, k).ret = OkBytes(C7_SavedBytes)

\* C12 witness: a save under model_weights replaced different bytes held under
\* that key while the store also held the tokenizer.
C12_Witness ==
    /\ last.op \in {"save_to_stable", "save_parallel_to_stable"}
    /\ last.ret.tag = "Ok"
    /\ last.arg.key \in DOMAIN pre.REGISTRIES
    /\ pre.REGISTRIES[last.arg.key] # REGISTRIES[last.arg.key]
    /\ "tokenizer" \in DOMAIN REGISTRIES
    /\ last.arg.key # "tokenizer"

\* C13: an upgrade preserves every key and its bytes in the store, and the new
\* instance starts with an empty UploadBuffer, an empty ChunkMap and no
\* session; getStableData returns after the upgrade what was stored before it,
\* and setupModel finds both reserved keys when they were stored before it.
C13_UpgradeKeepsStore ==
    last.op = "post_upgrade"
    => /\ REGISTRIES = pre.REGISTRIES
       /\ BUFFER = <<>>
       /\ BUFFER_MAP = EmptyMap
       /\ ~is_model_loaded(QWEN_MODEL)
       /\ \A k \in DOMAIN pre.REGISTRIES :
              get_stable_data(BUFFER, BUFFER_MAP, REGISTRIES, k).ret = OkBytes(pre.REGISTRIES[k])
       /\ \A k \in {"model_weights", "tokenizer"} :
              load_bytes_from_stable(REGISTRIES, k) = load_bytes_from_stable(pre.REGISTRIES, k)
       /\ {"model_weights", "tokenizer"} \subseteq DOMAIN pre.REGISTRIES
              => \A lib \in LoadOutcomes :
                     (lib.tokenizer_ok /\ lib.gguf_ok /\ lib.model_ok)
                     => internal_setup_model(QWEN_MODEL, REGISTRIES, lib).ret.tag = "Ok"

\* C13 witness: the canister was upgraded while it held sequential content,
\* parallel chunks, a loaded session and both reserved keys in the store.
C13_Witness ==
    /\ last.op = "post_upgrade"
    /\ last.ret.b
    /\ pre.BUFFER # <<>>
    /\ pre.BUFFER_MAP # EmptyMap
    /\ DOMAIN REGISTRIES = {"model_weights", "tokenizer"}

\* C14: consolidateParallelChunks is atomic with respect to the other calls.
\* From the state in which its closure has drained the ChunkMap and the
\* UploadBuffer is not yet replaced, the only step taken is the second half of
\* the same call: no append takes effect in between, and the UploadBuffer and
\* the ChunkMap end as the uninterrupted function leaves them.
C14_ConsolidationNotInterleaved ==
    [][call.pc = "consolidate"
       => LET whole == consolidate_parallel_chunks(pre.BUFFER, pre.BUFFER_MAP, pre.REGISTRIES)
          IN  /\ call'.pc = "idle"
              /\ last'.op = "consolidate_parallel_chunks"
              /\ last'.ret = whole.ret
              /\ BUFFER' = whole.BUFFER
              /\ BUFFER_MAP' = whole.BUFFER_MAP
              /\ BUFFER_MAP' = BUFFER_MAP
              /\ REGISTRIES' = REGISTRIES]_vars

\* C14 witness: a consolidation has drained two chunks from the ChunkMap and
\* has not yet replaced the UploadBuffer, which holds sequential content.
C14_Witness ==
    /\ call.pc = "consolidate"
    /\ Cardinality(DOMAIN pre.BUFFER_MAP) >= 2
    /\ BUFFER_MAP = EmptyMap
    /\ call.text # <<>>
    /\ BUFFER # <<>>
    /\ BUFFER # call.text

\* C15: after a successful reset the session is still loaded, its token
\* history is empty (getModelInfo reports 0 current tokens) and the logical
\* length of its attention cache is 0.
C15_ResetClearsHistoryAndCache ==
    (last.op = "reset_generation" /\ last.ret.tag = "Ok")
    => /\ is_model_loaded(QWEN_MODEL)
       /\ QWEN_MODEL[1].tokens = <<>>
       /\ get_model_info(QWEN_MODEL).current_tokens = 0
       /\ QWEN_MODEL[1].kv_cache = 0

\* C17: a token history holds eosTokenId only as its last entry (no step runs
\* after the step that sampled it), and a generate call that ended on
\* eosTokenId returned success with the length of the history as its token
\* count.
C17_EosEndsGeneration ==
    QWEN_MODEL # <<>>
    => LET tokens == QWEN_MODEL[1].tokens
           eos == QWEN_MODEL[1].eos_token
       IN  /\ \A j \in 1..(Len(tokens) - 1) : tokens[j] # eos
           /\ (/\ last.op = "generate"
               /\ Returned
               /\ tokens # <<>>
               /\ tokens[Len(tokens)] = eos)
              => /\ last.ret.tag = "Ok"
                 /\ last.ret.n = Len(tokens)

TokenizerNotFound(ret) ==
    ret.tag = "Err" /\ ret.err[1] = "Tokenizer not found in stable storage"
NotInitialized(ret) ==
    /\ ret.tag = "Err"
    /\ ret.err[1] \in {"Model not initialized. Call setup_model first.", "Model not initialized"}

\* C19: setupModel fails with an error of its own when model_weights is not in
\* the store, and with TokenizerNotFound, a different error, when
\* model_weights is stored and tokenizer is not; either way no session is
\* installed.
C19_SetupReportsMissingKey ==
    last.op = "setup_model"
    => /\ "model_weights" \notin DOMAIN REGISTRIES
            => /\ last.ret.tag = "Err"
               /\ ~TokenizerNotFound(last.ret)
               /\ QWEN_MODEL = <<>>
       /\ ("model_weights" \in DOMAIN REGISTRIES /\ "tokenizer" \notin DOMAIN REGISTRIES)
            => /\ TokenizerNotFound(last.ret)
               /\ QWEN_MODEL = <<>>

\* C20: on an unloaded session generate fails with NotInitialized, empty text
\* and 0 tokens, resetGeneration fails with NotInitialized, isModelLoaded
\* answers false and getModelInfo answers {loaded: false, currentTokens: 0};
\* each of these calls leaves the session unloaded and the stores as they were.
C20_UnloadedCalls ==
    [][(/\ QWEN_MODEL = <<>>
        /\ last'.op \in {"generate", "reset_generation", "is_model_loaded", "get_model_info"})
       => /\ QWEN_MODEL' = <<>>
          /\ UNCHANGED <<BUFFER, BUFFER_MAP, REGISTRIES, call>>
          /\ last'.op = "generate"
               => /\ NotInitialized(last'.ret)
                  /\ last'.ret.bytes = <<>>
                  /\ last'.ret.n = 0
          /\ last'.op = "reset_generation" => NotInitialized(last'.ret)
          /\ last'.op = "is_model_loaded" => last'.ret = OkBool(FALSE)
          /\ last'.op = "get_model_info"
               => /\ last'.ret.tag = "Ok"
                  /\ ~last'.ret.b
                  /\ last'.ret.n = 0]_vars

\* C20 witness: resetGeneration was refused on an unloaded session although
\* both reserved keys were in the store.
C20_Witness ==
    /\ last.op = "reset_generation"
    /\ NotInitialized(last.ret)
    /\ QWEN_MODEL = <<>>
    /\ DOMAIN REGISTRIES = {"model_weights", "tokenizer"}

\* C21: after a successful setupModel there is exactly one session, it is
\* loaded, its token history is empty (getModelInfo reports 0 current tokens)
\* and its attention cache is empty, whatever the session installed before
\* held.
C21_SetupReplacesSession ==
    (last.op = "setup_model" /\ last.ret.tag = "Ok")
    => /\ Len(QWEN_MODEL) = 1
       /\ is_model_loaded(QWEN_MODEL)
       /\ QWEN_MODEL[1].tokens = <<>>
       /\ get_model_info(QWEN_MODEL) = [loaded |-> TRUE, current_tokens |-> 0]
       /\ QWEN_MODEL[1].kv_cache = 0

\* C21 witness: setupModel succeeded over a session whose history held
\* several tokens of an earlier generation.
C21_Witness ==
    /\ last.op = "setup_model"
    /\ last.ret.tag = "Ok"
    /\ last.ret.b
    /\ last.ret.n >= 3
    /\ QWEN_MODEL # <<>>
    /\ QWEN_MODEL[1].tokens = <<>>

\* C22: a failure of tokenizer.decode on the sampled token does not fail the
\* step: no generate call returns an error because of it.
C22_DecodeFailureNotFatal ==
    last.op = "generate" => ~(last.ret.tag = "Err" /\ last.ret.err[1] = "Decode error: ")

\* C23: every generate call clears the token history and the attention cache
\* before it encodes the prompt and runs its first step: when the encoding
\* fails the session is left with both empty, and after the priming step the
\* history holds the one sampled token and the cache the positions of the
\* prompt alone.
C23_PrimingClearsHistoryAndCache ==
    QWEN_MODEL # <<>>
    => /\ (/\ last.op = "generate"
           /\ last.ret.tag = "Err"
           /\ last.ret.err[1] = "Tokenization error: ")
          => /\ QWEN_MODEL[1].tokens = <<>>
             /\ QWEN_MODEL[1].kv_cache = 0
       /\ (call.pc = "loop" /\ call.i = 0)
          => /\ Len(QWEN_MODEL[1].tokens) = 1
             /\ QWEN_MODEL[1].kv_cache = Len(call.fed.input)

\* C24: the priming step gives the whole encoded prompt to the forward
\* capability at offset 0, and every decode step gives it the single most
\* recent token of the history at offset len(tokenHistory) - 1, the length
\* taken before the step appends the token it samples.
C24_StepInputAndOffset ==
    (call.pc = "loop" /\ QWEN_MODEL # <<>>)
    => LET tokens == QWEN_MODEL[1].tokens
           before == Len(tokens) - 1
       IN  IF call.i = 0
           THEN /\ call.fed.input \in Prompts
                /\ call.fed.offset = 0
           ELSE /\ call.fed.input = <<tokens[before]>>
                /\ call.fed.offset = before - 1

\* C25: a generate call on a loaded session runs one priming step and then at
\* most max_tokens decode steps: inside the loop the number of decode steps
\* run is between 0 and max_tokens and the history holds one token per step
\* run; every step taken inside the loop either ends the call or is one more
\* decode step, so the call ends within max_tokens decode steps; and a call
\* that returns success reports as tokensGenerated the length of the history,
\* which is the number of steps run and lies between 1 and max_tokens + 1.
C25_GenerateTerminates ==
    [][/\ call'.pc = "loop"
          => /\ call'.i \in 0..max_tokens
             /\ Len(QWEN_MODEL'[1].tokens) = call'.i + 1
       /\ call.pc = "loop"
          => \/ call'.pc = "idle" /\ last'.op = "generate" /\ last'.ret # Pending
             \/ call'.pc = "loop" /\ call'.i = call.i + 1
       /\ (call.pc = "loop" /\ call'.pc = "idle" /\ last'.ret.tag = "Ok")
          => /\ last'.ret.n = Len(QWEN_MODEL'[1].tokens)
             /\ last'.ret.n = call.i + 1
             /\ last'.ret.n \in 1..(max_tokens + 1)]_vars

\* C25 witness: a generate call ran its priming step and all max_tokens
\* decode steps and returned success.
C25_Witness ==
    /\ last.op = "generate"
    /\ last.ret.tag = "Ok"
    /\ last.ret.n = max_tokens + 1
    /\ QWEN_MODEL # <<>>
    /\ Len(QWEN_MODEL[1].tokens) = max_tokens + 1

\* C26: the eos token of a session just loaded is the id of "<|endoftext|>"
\* when the vocabulary has it, whether or not it has "<|im_end|>" too; else
\* the id of "<|im_end|>" when the vocabulary has that; else 0. The lookup
\* never fails the load: with both blobs stored and decodable, setupModel
\* succeeds for every vocabulary.
C26_EosResolution ==
    /\ (last.op = "setup_model" /\ last.ret.tag = "Ok")
       => LET vocab == last.arg.vocab
              eos == QWEN_MODEL[1].eos_token
          IN  /\ "<|endoftext|>" \in DOMAIN vocab => eos = vocab["<|endoftext|>"]
              /\ ("<|endoftext|>" \notin DOMAIN vocab /\ "<|im_end|>" \in DOMAIN vocab)
                 => eos = vocab["<|im_end|>"]
              /\ DOMAIN vocab \cap Markers = {} => eos = 0
    /\ {"model_weights", "tokenizer"} \subseteq DOMAIN REGISTRIES
       => \A vocab \in Vocabs :
              internal_setup_model(QWEN_MODEL, REGISTRIES,
                                   [tokenizer_ok |-> TRUE, vocab |-> vocab,
                                    gguf_ok |-> TRUE, model_ok |-> TRUE]).ret.tag = "Ok"

\* C26 witness: a session was loaded from a vocabulary that has both markers
\* under different ids.
C26_Witness ==
    /\ last.op = "setup_model"
    /\ last.ret.tag = "Ok"
    /\ DOMAIN last.arg.vocab = Markers
    /\ last.arg.vocab["<|endoftext|>"] # last.arg.vocab["<|im_end|>"]
    /\ QWEN_MODEL[1].eos_token = last.arg.vocab["<|endoftext|>"]

\* C27: remove_parallel_chunk(id) returns true exactly when id was a key of
\* BUFFER_MAP; afterwards id is absent and every other entry is as it was;
\* BUFFER and the store are unchanged; when id was absent it returns false
\* and nothing changes.
C27_RemoveParallelChunk ==
    last.op = "remove_parallel_chunk"
    => LET id == last.arg.id
       IN  /\ last.ret.tag = "Ok"
           /\ last.ret.b <=> id \in DOMAIN pre.BUFFER_MAP
           /\ id \notin DOMAIN BUFFER_MAP
           /\ DOMAIN BUFFER_MAP = DOMAIN pre.BUFFER_MAP \ {id}
           /\ \A k \in DOMAIN BUFFER_MAP : BUFFER_MAP[k] = pre.BUFFER_MAP[k]
           /\ BUFFER = pre.BUFFER
           /\ REGISTRIES = pre.REGISTRIES
           /\ ~last.ret.b => StoresUnchanged

\* C27 witness: a chunk was removed while another chunk, a filled buffer and
\* a stored blob were held.
C27_Witness ==
    /\ last.op = "remove_parallel_chunk"
    /\ last.ret.b
    /\ DOMAIN BUFFER_MAP # {}
    /\ BUFFER # <<>>
    /\ DOMAIN REGISTRIES # {}

\* C28: append_chunk, clear_buffer, get_data and save_to_stable leave
\* BUFFER_MAP as it was; append_parallel_chunk, remove_parallel_chunk,
\* clear_parallel_chunks and save_parallel_to_stable leave BUFFER as it was;
\* append_chunk leaves BUFFER equal to its previous content followed by the
\* new bytes; none of the append, clear and remove operations changes the
\* store.
C28_UploadPathsIndependent ==
    /\ last.op \in {"append_chunk", "clear_buffer", "get_data", "save_to_stable"}
       => BUFFER_MAP = pre.BUFFER_MAP
    /\ last.op \in {"append_parallel_chunk", "remove_parallel_chunk",
                    "clear_parallel_chunks", "save_parallel_to_stable"}
       => BUFFER = pre.BUFFER
    /\ last.op = "append_chunk"
       => /\ Len(BUFFER) = Len(pre.BUFFER) + Len(last.arg.chunk)
          /\ \A i \in 1..Len(pre.BUFFER) : BUFFER[i] = pre.BUFFER[i]
          /\ \A i \in 1..Len(last.arg.chunk) : BUFFER[Len(pre.BUFFER) + i] = last.arg.chunk[i]
    /\ last.op \in {"append_chunk", "append_parallel_chunk", "clear_buffer",
                    "clear_parallel_chunks", "remove_parallel_chunk"}
       => REGISTRIES = pre.REGISTRIES

\* C28 witness: bytes were appended behind different bytes already received
\* while parallel chunks and a stored blob were held.
C28_Witness ==
    /\ last.op = "append_chunk"
    /\ pre.BUFFER # <<>>
    /\ last.arg.chunk # <<>>
    /\ pre.BUFFER \o last.arg.chunk # last.arg.chunk \o pre.BUFFER
    /\ DOMAIN BUFFER_MAP # {}
    /\ DOMAIN REGISTRIES # {}

\* C29: a setup_model that fails, whether for a missing key, a tokenizer that
\* does not decode, weights that do not decode or a model that cannot be
\* built, leaves the installed session, if any, as it was (is_model_loaded
\* and the token history included) and leaves the store unchanged; the
\* session is replaced only by a setup_model that succeeds.
C29_FailedSetupKeepsSession ==
    [][last'.op = "setup_model"
       => /\ last'.ret.tag = "Err"
             => /\ QWEN_MODEL' = QWEN_MODEL
                /\ is_model_loaded(QWEN_MODEL') = last'.ret.b
                /\ get_model_info(QWEN_MODEL').current_tokens = last'.ret.n
                /\ REGISTRIES' = REGISTRIES
                /\ last'.ret.err[1] \in {"Tokenizer not found in stable storage",
                                         "Failed to load tokenizer: ",
                                         "Failed to read GGUF: ", "from_gguf"}
          /\ QWEN_MODEL' # QWEN_MODEL => last'.ret.tag = "Ok"]_vars

\* C29 witness: with a session holding a token history installed, setup_model
\* failed on weights that do not decode.
C29_Witness ==
    /\ last.op = "setup_model"
    /\ last.ret.tag = "Err"
    /\ last.ret.err[1] = "Failed to read GGUF: "
    /\ last.ret.b
    /\ last.ret.n > 0
    /\ QWEN_MODEL # <<>>
    /\ QWEN_MODEL[1].tokens # <<>>

====
